---- MODULE Spec2Model ----
(***************************************************************************)
(* Model of the splunk logging driver (daemon/logger/splunk/splunk.go):    *)
(* construction of the driver by New from the container's options,         *)
(* producers calling Log, the bounded stream channel, the single worker    *)
(* goroutine with its unsent buffer, postMessages' retry/overflow policy,  *)
(* the requests tryPostMessages issues, and the Close handshake.           *)
(*                                                                         *)
(* Records are identified by the position at which they entered the stream *)
(* channel (1, 2, 3, ...).  A send attempt (tryPostMessages) is taken as   *)
(* atomically succeeding or failing.  For one postMessages call the        *)
(* collector answers 200 to some number of requests and something else     *)
(* afterwards; the loop returns at the first failure, so the offset of the *)
(* first failing chunk determines what is sent, logged and retained.       *)
(***************************************************************************)
EXTENDS Integers, Sequences, FiniteSets

\* ---- bounds of the model ----
MaxRecords == 5
MaxBatchSize == 3
MaxBufferMaximum == 4
MaxChannelSize == 2
\* options and environment variables set besides splunk-url and splunk-token
MaxOptions == 2
\* characters of a logged line
MaxLineLen == 1
\* records logged through the driver built by New
MaxLogged == 2

Producers == {"p1", "p2"}
Closers == {"c1", "c2"}

\* defaults of the advanced options
defaultPostMessagesFrequency == "5s"
defaultPostMessagesBatchSize == 1000
defaultBufferMaximum == 10 * defaultPostMessagesBatchSize
defaultStreamChannelSize == 4 * defaultPostMessagesBatchSize

\* failAt value meaning that every chunk of the flush was sent successfully
NoFail == -1

VARIABLES
    postMessagesBatchSize,  \* l.postMessagesBatchSize
    bufferMaximum,          \* l.bufferMaximum
    streamChannelSize,      \* cap(l.stream)
    stream,                 \* contents of the channel l.stream, oldest first
    streamClosed,           \* close(l.stream) has been executed
    closedCond,             \* l.closedCond != nil
    closed,                 \* l.closed
    readers,                \* producers holding l.lock.RLock()
    ppc,                    \* position of each producer in Log/queueMessageAsync
    cpc,                    \* position of each Close() caller
    wpc,                    \* position of the worker goroutine
    messages,               \* the worker's local unsent buffer
    remote,                 \* behaviour of the HTTP event collector
    nextId,                 \* identity of the next record entering the stream
    delivered,              \* records of successful sends, in send order
    logged,                 \* records written to the daemon log as not sent
    lastFlush,              \* the most recent postMessages call; batchAt: the
                            \* record whose arrival last triggered one
    initiator,              \* the Close() caller that closed the stream
    panicked,               \* a goroutine has panicked (send on / close of closed channel)
    info,                   \* the logger.Info and environment New is called with
    created,                \* what New has returned: nothing yet, an error, the logger
    logger,                 \* format, gzipCompression, indexAck, auth of the logger
    line                    \* msg.Line of each producer's most recent Log call

vars == <<postMessagesBatchSize, bufferMaximum, streamChannelSize, stream,
          streamClosed, closedCond, closed, readers, ppc, cpc, wpc, messages,
          remote, nextId, delivered, logged, lastFlush, initiator, panicked,
          info, created, logger, line>>

\* what New sets up and the calls' arguments: the steps of the running
\* pipeline leave them as they are
config == <<postMessagesBatchSize, bufferMaximum, streamChannelSize,
            info, created, logger, line>>

Min(a, b) == IF a < b THEN a ELSE b

SeqRange(s) == {s[n] : n \in 1..Len(s)}

NoFlush == [trigger |-> "none", input |-> <<>>, lastChance |-> FALSE,
            failAt |-> NoFail, sends |-> <<>>, requests |-> <<>>,
            batchAt |-> 0]

\* http.StatusOK
StatusOK == 200

\* What client.Do returns: an error, or a response with a status.
Ok == [err |-> FALSE, status |-> StatusOK]
NoContent == [err |-> FALSE, status |-> 204]
Unavailable == [err |-> FALSE, status |-> 503]
TransportError == [err |-> TRUE, status |-> 0]

\* a key that info.Config does not hold, a header that is not set
Absent == "<absent>"

\* info.Config and the environment with nothing set; Hostname() and
\* ExtraAttributes() succeed.
NoInfo ==
    [hostname |-> TRUE, url |-> Absent, token |-> Absent,
     insecureskipverify |-> Absent, capath |-> Absent, gzip |-> Absent,
     gzipLevel |-> Absent, indexAck |-> Absent, tag |-> Absent,
     attrs |-> TRUE, verify |-> Absent, format |-> Absent,
     envFrequency |-> "", envBatchSize |-> "", envBufferMaximum |-> "",
     envChannelSize |-> "", preflight |-> Ok]

\* the fields of a logger that does not exist
NoLogger ==
    [format |-> "", gzipCompression |-> FALSE, indexAck |-> FALSE,
     auth |-> <<>>, postMessagesFrequency |-> ""]

\* the logger New builds from splunk-url and splunk-token alone
PlainLogger ==
    [format |-> "inline", gzipCompression |-> FALSE, indexAck |-> FALSE,
     auth |-> <<"Splunk", "token">>,
     postMessagesFrequency |-> defaultPostMessagesFrequency]

\* ---- construction (New) ----
\* The state New leaves behind, with the collector in condition r.
InitWith(r) ==
    /\ postMessagesBatchSize \in 1..MaxBatchSize
    /\ bufferMaximum \in 1..MaxBufferMaximum
    /\ streamChannelSize = MaxChannelSize
    /\ stream = <<>>
    /\ streamClosed = FALSE
    /\ closedCond = FALSE
    /\ closed = FALSE
    /\ readers = {}
    /\ ppc = [p \in Producers |-> "idle"]
    /\ cpc = [c \in Closers |-> "idle"]
    /\ wpc = "loop"
    /\ messages = <<>>
    /\ remote = r
    /\ nextId = 1
    /\ delivered = <<>>
    /\ logged = <<>>
    /\ lastFlush = NoFlush
    /\ initiator = "none"
    /\ panicked = FALSE
    /\ info = NoInfo
    /\ created = "logger"
    /\ logger = PlainLogger
    /\ line = [p \in Producers |-> <<"a">>]

Init == InitWith("flaky")

\* ---- New: options, environment, pre-flight request ----
\* strconv.ParseBool
ParseBool(str) ==
    CASE str \in {"1", "t", "T", "TRUE", "true", "True"} ->
            [err |-> FALSE, value |-> TRUE]
      [] str \in {"0", "f", "F", "FALSE", "false", "False"} ->
            [err |-> FALSE, value |-> FALSE]
      [] OTHER -> [err |-> TRUE, value |-> FALSE]

\* strconv.ParseInt(str, 10, 32) on the numerals used here
ParseInt(str) ==
    CASE str = "-1" -> [err |-> FALSE, value |-> -1]
      [] str = "0" -> [err |-> FALSE, value |-> 0]
      [] str = "2" -> [err |-> FALSE, value |-> 2]
      [] str = "3" -> [err |-> FALSE, value |-> 3]
      [] str = "9" -> [err |-> FALSE, value |-> 9]
      [] str = "10" -> [err |-> FALSE, value |-> 10]
      [] OTHER -> [err |-> TRUE, value |-> 0]

\* time.ParseDuration on the strings used here
ParseDuration(str) ==
    IF str \in {"1s", "5s"}
    THEN [err |-> FALSE, value |-> str]
    ELSE [err |-> TRUE, value |-> ""]

\* url.Parse on the strings used here
UrlParse(str) ==
    CASE str = "https://splunk:8088" ->
            [err |-> FALSE, abs |-> TRUE, scheme |-> "https", path |-> "",
             query |-> "", fragment |-> ""]
      [] str = "ftp://splunk:8088" ->
            [err |-> FALSE, abs |-> TRUE, scheme |-> "ftp", path |-> "",
             query |-> "", fragment |-> ""]
      [] str = "https://splunk:8088/a?b" ->
            [err |-> FALSE, abs |-> TRUE, scheme |-> "https", path |-> "/a",
             query |-> "b", fragment |-> ""]
      [] str = "splunk" ->
            [err |-> FALSE, abs |-> FALSE, scheme |-> "", path |-> "splunk",
             query |-> "", fragment |-> ""]
      [] OTHER ->
            [err |-> TRUE, abs |-> FALSE, scheme |-> "", path |-> "",
             query |-> "", fragment |-> ""]

\* parseURL fails
parseURLErr(i) ==
    \/ i.url = Absent
    \/ LET u == UrlParse(i.url) IN
       \/ u.err
       \/ ~u.abs
       \/ u.scheme \notin {"http", "https"}
       \/ u.path \notin {"", "/"}
       \/ u.query # ""
       \/ u.fragment # ""

\* an option holding a boolean is set to something ParseBool rejects
BoolErr(value) == value # Absent /\ ParseBool(value).err

\* the value of an option holding a boolean
BoolOpt(value, default) ==
    IF value = Absent THEN default ELSE ParseBool(value).value

\* splunk-gzip-level is set and is no number from gzip.DefaultCompression
\* (-1) to gzip.BestCompression (9)
GzipLevelErr(i) ==
    /\ i.gzipLevel # Absent
    /\ LET l == ParseInt(i.gzipLevel) IN l.err \/ l.value < -1 \/ l.value > 9

\* Variant that returns the parsed value's zero when the value does not parse.
getAdvancedOptionInt_zeroOnError(str, defaultValue) ==
    IF str = "" THEN defaultValue ELSE ParseInt(str).value

getAdvancedOptionInt(str, defaultValue) ==
    IF str = "" THEN defaultValue
    ELSE IF ParseInt(str).err THEN defaultValue ELSE ParseInt(str).value

getAdvancedOptionDuration(str, defaultValue) ==
    IF str = "" THEN defaultValue
    ELSE IF ParseDuration(str).err THEN defaultValue ELSE ParseDuration(str).value

\* the pre-flight request is made
Verifies(i) == BoolOpt(i.verify, TRUE)

\* verifySplunkConnection: the OPTIONS request fails or its status is not 200
verifySplunkConnectionErr(i) ==
    i.preflight.err \/ i.preflight.status # StatusOK

\* Variant of New that ignores the result of the pre-flight request.
NewErr_ignoresPreflight(i) ==
    \/ ~i.hostname
    \/ parseURLErr(i)
    \/ i.token = Absent
    \/ BoolErr(i.insecureskipverify)
    \/ i.capath = "/missing.pem"
    \/ BoolErr(i.gzip)
    \/ GzipLevelErr(i)
    \/ BoolErr(i.indexAck)
    \/ i.tag = "{{"
    \/ ~i.attrs
    \/ BoolErr(i.verify)
    \/ (IF i.format = Absent THEN "inline" ELSE i.format)
           \notin {"inline", "json", "raw"}

\* Variant of New that takes any format and falls back to inline.
NewErr_anyFormat(i) ==
    \/ ~i.hostname
    \/ parseURLErr(i)
    \/ i.token = Absent
    \/ BoolErr(i.insecureskipverify)
    \/ i.capath = "/missing.pem"
    \/ BoolErr(i.gzip)
    \/ GzipLevelErr(i)
    \/ BoolErr(i.indexAck)
    \/ i.tag = "{{"
    \/ ~i.attrs
    \/ BoolErr(i.verify)
    \/ (Verifies(i) /\ verifySplunkConnectionErr(i))

\* New returns an error: the returns of New before `go loggerWrapper.worker()`,
\* in the order of the code.  The file at /missing.pem cannot be read, the
\* template {{ does not parse.
NewErr(i) ==
    \/ ~i.hostname
    \/ parseURLErr(i)
    \/ i.token = Absent
    \/ BoolErr(i.insecureskipverify)
    \/ i.capath = "/missing.pem"
    \/ BoolErr(i.gzip)
    \/ GzipLevelErr(i)
    \/ BoolErr(i.indexAck)
    \/ i.tag = "{{"
    \/ ~i.attrs
    \/ BoolErr(i.verify)
    \/ (Verifies(i) /\ verifySplunkConnectionErr(i))
    \/ (IF i.format = Absent THEN "inline" ELSE i.format)
           \notin {"inline", "json", "raw"}

\* the splunkLogger New builds
NewLogger(i) ==
    [format |-> IF i.format = Absent THEN "inline" ELSE i.format,
     gzipCompression |-> BoolOpt(i.gzip, FALSE),
     indexAck |-> BoolOpt(i.indexAck, FALSE),
     auth |-> <<"Splunk", i.token>>,
     postMessagesFrequency |->
         getAdvancedOptionDuration(i.envFrequency, defaultPostMessagesFrequency)]

\* New(info): an error, or the logger with its worker started.  The logger
\* holds what it needs of info in its fields.
New ==
    /\ created = "none"
    /\ IF NewErr(info)
       THEN /\ created' = "error"
            /\ UNCHANGED <<postMessagesBatchSize, bufferMaximum,
                           streamChannelSize, logger, wpc, info>>
       ELSE /\ created' = "logger"
            /\ info' = NoInfo
            /\ logger' = NewLogger(info)
            /\ postMessagesBatchSize' =
                   getAdvancedOptionInt(info.envBatchSize,
                                        defaultPostMessagesBatchSize)
            /\ bufferMaximum' =
                   getAdvancedOptionInt(info.envBufferMaximum,
                                        defaultBufferMaximum)
            /\ streamChannelSize' =
                   getAdvancedOptionInt(info.envChannelSize,
                                        defaultStreamChannelSize)
            /\ wpc' = "loop"
    /\ UNCHANGED <<stream, streamClosed, closedCond, closed, readers, ppc, cpc,
                   messages, remote, nextId, delivered, logged, lastFlush,
                   initiator, panicked, line>>

\* ---- postMessages ----
\* Offsets at which the first failing chunk of a flush of n records can start.
ChunkOffsets(n) == {i \in 0..(n - 1) : i % postMessagesBatchSize = 0}

\* number of chunks of a buffer of n records
NChunks(n) ==
    IF n = 0
    THEN 0
    ELSE (n + postMessagesBatchSize - 1) \div postMessagesBatchSize

\* the number of the request for the chunk at offset i: 1 for the first
RequestNo(i) == IF i = 0 THEN 1 ELSE (i \div postMessagesBatchSize) + 1

\* What the collector does with the requests of one flush of n records: it
\* answers 200 to the first o.ok of them and o.then to every later one.  A
\* healthy collector answers every request with 200, a collector that is down
\* answers none with 200, a flaky one stops answering 200 at any request.
\* In condition "any" the other answer is any status or a transport error.
Outcomes(n) ==
    CASE remote = "healthy" -> {[ok |-> 0, then |-> Ok]}
      [] remote = "down" -> {[ok |-> 0, then |-> Unavailable]}
      [] remote = "any" ->
            [ok : 0..NChunks(n), then : {NoContent, Unavailable, TransportError}]
      [] OTHER -> [ok : 0..NChunks(n), then : {Unavailable}]

\* the answer to the k-th request of a flush
Answer(o, k) == IF k <= o.ok THEN Ok ELSE o.then

\* Variant of the chunk bounds without the clamp to one batch.
Chunk_toEnd(msgs, i) == SubSeq(msgs, i + 1, Len(msgs))

\* messages[i:upperBound], the chunk handed to tryPostMessages at offset i.
Chunk(msgs, i) ==
    SubSeq(msgs, i + 1, Min(i + postMessagesBatchSize, Len(msgs)))

\* The chunks handed to tryPostMessages by one postMessages call, in order:
\* offsets 0, batchSize, 2*batchSize, ... up to the failing one, or to the end.
Attempts(msgs, failAt) ==
    LET n == IF failAt = NoFail
             THEN NChunks(Len(msgs))
             ELSE RequestNo(failAt)
    IN [k \in 1..n |-> Chunk(msgs, (k - 1) * postMessagesBatchSize)]

\* ---- tryPostMessages ----
\* The POST request tryPostMessages builds for a chunk, with the answer it
\* gets.  The body is the chunk's events, written through a gzip writer when
\* gzipCompression is set.
Request(msgs, answer) ==
    [method |-> "POST",
     Authorization |-> logger.auth,
     ContentEncoding |-> IF logger.gzipCompression THEN "gzip" ELSE Absent,
     RequestChannel |-> IF logger.indexAck THEN "uuid" ELSE Absent,
     gzipped |-> logger.gzipCompression,
     events |-> msgs,
     answer |-> answer]

\* Variant that takes every 2xx status as success.
tryPostMessages_any2xx(msgs, answer) ==
    IF Len(msgs) = 0
    THEN [err |-> FALSE, requests |-> <<>>]
    ELSE [err |-> answer.err \/ answer.status \notin 200..299,
          requests |-> <<Request(msgs, answer)>>]

\* Variant that sets the Content-Encoding header whenever a level is configured,
\* that is always.
tryPostMessages_gzipHeaderAlways(msgs, answer) ==
    IF Len(msgs) = 0
    THEN [err |-> FALSE, requests |-> <<>>]
    ELSE [err |-> answer.err \/ answer.status # StatusOK,
          requests |-> <<[Request(msgs, answer) EXCEPT !.ContentEncoding = "gzip"]>>]

\* Variant without the len(messages) == 0 test.
tryPostMessages_noLenTest(msgs, answer) ==
    [err |-> answer.err \/ answer.status # StatusOK,
     requests |-> <<Request(msgs, answer)>>]

\* tryPostMessages(ctx, messages) when client.Do returns answer: the error
\* result and the request issued, if any.  json.Marshal and the gzip writer do
\* not fail on these values.
tryPostMessages(msgs, answer) ==
    IF Len(msgs) = 0
    THEN [err |-> FALSE, requests |-> <<>>]
    ELSE [err |-> answer.err \/ answer.status # StatusOK,
          requests |-> <<Request(msgs, answer)>>]

\* Variant of the loop that goes on with the next chunk after a failed send.
RECURSIVE SendLoop_continues(_, _, _)
SendLoop_continues(msgs, i, o) ==
    IF i >= Len(msgs)
    THEN [requests |-> <<>>, failAt |-> NoFail]
    ELSE LET t == tryPostMessages(Chunk(msgs, i),
                                  Answer(o, RequestNo(i)))
             rest == SendLoop_continues(msgs, i + postMessagesBatchSize, o)
         IN [requests |-> t.requests \o rest.requests,
             failAt |-> IF t.err THEN i ELSE rest.failAt]

\* Variant of the loop that posts first and tests the length afterwards, with
\* a sender that does not test the length either.
RECURSIVE SendLoop_postsFirst(_, _, _)
SendLoop_postsFirst(msgs, i, o) ==
    LET t == tryPostMessages_noLenTest(Chunk(msgs, i),
                                       Answer(o, RequestNo(i)))
    IN IF t.err
       THEN [requests |-> t.requests, failAt |-> IF i < Len(msgs) THEN i ELSE NoFail]
       ELSE IF i + postMessagesBatchSize >= Len(msgs)
            THEN [requests |-> t.requests, failAt |-> NoFail]
            ELSE LET rest == SendLoop_postsFirst(msgs, i + postMessagesBatchSize, o)
                 IN [requests |-> t.requests \o rest.requests,
                     failAt |-> rest.failAt]

\* The for loop of postMessages from offset i on: the requests it issues, in
\* order, and the offset of the chunk whose tryPostMessages returned an error
\* (NoFail: none did).  The loop returns at the first error.
RECURSIVE SendLoop(_, _, _)
SendLoop(msgs, i, o) ==
    IF i >= Len(msgs)
    THEN [requests |-> <<>>, failAt |-> NoFail]
    ELSE LET t == tryPostMessages(Chunk(msgs, i),
                                  Answer(o, RequestNo(i)))
         IN IF t.err
            THEN [requests |-> t.requests, failAt |-> i]
            ELSE LET rest == SendLoop(msgs, i + postMessagesBatchSize, o)
                 IN [requests |-> t.requests \o rest.requests,
                     failAt |-> rest.failAt]

\* ---- postMessages: what follows the first failed send ----
\* Variants of postMessages with one slip each.
\* lastChance does not widen the logged range to the end of the buffer.
postMessages_lastChanceOneChunk(msgs, lastChance, failAt) ==
    LET messagesLen == Len(msgs) IN
    IF failAt = NoFail
    THEN [sent |-> msgs, dropped |-> <<>>, rest |-> <<>>]
    ELSE LET i == failAt
             upperBound == Min(i + postMessagesBatchSize, messagesLen) IN
         IF messagesLen - i >= bufferMaximum \/ lastChance
         THEN [sent |-> SubSeq(msgs, 1, i),
               dropped |-> SubSeq(msgs, i + 1, upperBound),
               rest |-> SubSeq(msgs, upperBound + 1, messagesLen)]
         ELSE [sent |-> SubSeq(msgs, 1, i),
               dropped |-> <<>>,
               rest |-> SubSeq(msgs, i + 1, messagesLen)]

\* A retained buffer is returned whole (messages instead of messages[i:]).
postMessages_returnWhole(msgs, lastChance, failAt) ==
    LET messagesLen == Len(msgs) IN
    IF failAt = NoFail
    THEN [sent |-> msgs, dropped |-> <<>>, rest |-> <<>>]
    ELSE LET i == failAt IN
         IF messagesLen - i >= bufferMaximum \/ lastChance
         THEN LET upperBound == IF lastChance
                                THEN messagesLen
                                ELSE Min(i + postMessagesBatchSize, messagesLen)
              IN [sent |-> SubSeq(msgs, 1, i),
                  dropped |-> SubSeq(msgs, i + 1, upperBound),
                  rest |-> SubSeq(msgs, upperBound + 1, messagesLen)]
         ELSE [sent |-> SubSeq(msgs, 1, i),
               dropped |-> <<>>,
               rest |-> msgs]

\* The overflow test looks at the batch size instead of the buffer maximum.
postMessages_dropAtBatchSize(msgs, lastChance, failAt) ==
    LET messagesLen == Len(msgs) IN
    IF failAt = NoFail
    THEN [sent |-> msgs, dropped |-> <<>>, rest |-> <<>>]
    ELSE LET i == failAt IN
         IF messagesLen - i >= postMessagesBatchSize \/ lastChance
         THEN LET upperBound == IF lastChance
                                THEN messagesLen
                                ELSE Min(i + postMessagesBatchSize, messagesLen)
              IN [sent |-> SubSeq(msgs, 1, i),
                  dropped |-> SubSeq(msgs, i + 1, upperBound),
                  rest |-> SubSeq(msgs, upperBound + 1, messagesLen)]
         ELSE [sent |-> SubSeq(msgs, 1, i),
               dropped |-> <<>>,
               rest |-> SubSeq(msgs, i + 1, messagesLen)]

\* The overflow test is strict (> instead of >=).
postMessages_strictThreshold(msgs, lastChance, failAt) ==
    LET messagesLen == Len(msgs) IN
    IF failAt = NoFail
    THEN [sent |-> msgs, dropped |-> <<>>, rest |-> <<>>]
    ELSE LET i == failAt IN
         IF messagesLen - i > bufferMaximum \/ lastChance
         THEN LET upperBound == IF lastChance
                                THEN messagesLen
                                ELSE Min(i + postMessagesBatchSize, messagesLen)
              IN [sent |-> SubSeq(msgs, 1, i),
                  dropped |-> SubSeq(msgs, i + 1, upperBound),
                  rest |-> SubSeq(msgs, upperBound + 1, messagesLen)]
         ELSE [sent |-> SubSeq(msgs, 1, i),
               dropped |-> <<>>,
               rest |-> SubSeq(msgs, i + 1, messagesLen)]

\* An overflow logs the failing chunk but returns it with the rest
\* (messages[i:] instead of messages[upperBound:]).
postMessages_dropKeepsChunk(msgs, lastChance, failAt) ==
    LET messagesLen == Len(msgs) IN
    IF failAt = NoFail
    THEN [sent |-> msgs, dropped |-> <<>>, rest |-> <<>>]
    ELSE LET i == failAt IN
         IF messagesLen - i >= bufferMaximum \/ lastChance
         THEN LET upperBound == IF lastChance
                                THEN messagesLen
                                ELSE Min(i + postMessagesBatchSize, messagesLen)
              IN [sent |-> SubSeq(msgs, 1, i),
                  dropped |-> SubSeq(msgs, i + 1, upperBound),
                  rest |-> SubSeq(msgs, i + 1, messagesLen)]
         ELSE [sent |-> SubSeq(msgs, 1, i),
               dropped |-> <<>>,
               rest |-> SubSeq(msgs, i + 1, messagesLen)]

\* The overflow test looks at the whole buffer (messagesLen instead of
\* messagesLen - i).
postMessages_totalLength(msgs, lastChance, failAt) ==
    LET messagesLen == Len(msgs) IN
    IF failAt = NoFail
    THEN [sent |-> msgs, dropped |-> <<>>, rest |-> <<>>]
    ELSE LET i == failAt IN
         IF messagesLen >= bufferMaximum \/ lastChance
         THEN LET upperBound == IF lastChance
                                THEN messagesLen
                                ELSE Min(i + postMessagesBatchSize, messagesLen)
              IN [sent |-> SubSeq(msgs, 1, i),
                  dropped |-> SubSeq(msgs, i + 1, upperBound),
                  rest |-> SubSeq(msgs, upperBound + 1, messagesLen)]
         ELSE [sent |-> SubSeq(msgs, 1, i),
               dropped |-> <<>>,
               rest |-> SubSeq(msgs, i + 1, messagesLen)]

\* A buffer that has reached the maximum loses its first chunk before
\* anything is sent.
postMessages_proactiveDrop(msgs, lastChance, failAt) ==
    LET messagesLen == Len(msgs) IN
    IF failAt = NoFail
    THEN IF messagesLen >= bufferMaximum /\ ~lastChance
         THEN LET upperBound == Min(postMessagesBatchSize, messagesLen)
              IN [sent |-> SubSeq(msgs, upperBound + 1, messagesLen),
                  dropped |-> SubSeq(msgs, 1, upperBound),
                  rest |-> <<>>]
         ELSE [sent |-> msgs, dropped |-> <<>>, rest |-> <<>>]
    ELSE LET i == failAt IN
         IF messagesLen - i >= bufferMaximum \/ lastChance
         THEN LET upperBound == IF lastChance
                                THEN messagesLen
                                ELSE Min(i + postMessagesBatchSize, messagesLen)
              IN [sent |-> SubSeq(msgs, 1, i),
                  dropped |-> SubSeq(msgs, i + 1, upperBound),
                  rest |-> SubSeq(msgs, upperBound + 1, messagesLen)]
         ELSE [sent |-> SubSeq(msgs, 1, i),
               dropped |-> <<>>,
               rest |-> SubSeq(msgs, i + 1, messagesLen)]

\* An overflow logs every record it could not send, up to the end of the
\* buffer, in a non-final flush too.
postMessages_dropsAllPending(msgs, lastChance, failAt) ==
    LET messagesLen == Len(msgs) IN
    IF failAt = NoFail
    THEN [sent |-> msgs, dropped |-> <<>>, rest |-> <<>>]
    ELSE LET i == failAt IN
         IF messagesLen - i >= bufferMaximum \/ lastChance
         THEN [sent |-> SubSeq(msgs, 1, i),
               dropped |-> SubSeq(msgs, i + 1, messagesLen),
               rest |-> <<>>]
         ELSE [sent |-> SubSeq(msgs, 1, i),
               dropped |-> <<>>,
               rest |-> SubSeq(msgs, i + 1, messagesLen)]

\* On a failure below bufferMaximum the slice after the failing chunk is
\* returned instead of the slice from the failing chunk on.
postMessages_retainAfterChunk(msgs, lastChance, failAt) ==
    LET messagesLen == Len(msgs) IN
    IF failAt = NoFail
    THEN [sent |-> msgs, dropped |-> <<>>, rest |-> <<>>]
    ELSE LET i == failAt IN
         IF messagesLen - i >= bufferMaximum \/ lastChance
         THEN LET upperBound == IF lastChance
                                THEN messagesLen
                                ELSE Min(i + postMessagesBatchSize, messagesLen)
              IN [sent |-> SubSeq(msgs, 1, i),
                  dropped |-> SubSeq(msgs, i + 1, upperBound),
                  rest |-> SubSeq(msgs, upperBound + 1, messagesLen)]
         ELSE [sent |-> SubSeq(msgs, 1, i),
               dropped |-> <<>>,
               rest |-> SubSeq(msgs, Min(i + postMessagesBatchSize, messagesLen) + 1,
                               messagesLen)]

\* A non-final flush never drops: the overflow test is lastChance alone.
postMessages_noOverflow(msgs, lastChance, failAt) ==
    LET messagesLen == Len(msgs) IN
    IF failAt = NoFail
    THEN [sent |-> msgs, dropped |-> <<>>, rest |-> <<>>]
    ELSE LET i == failAt IN
         IF lastChance
         THEN [sent |-> SubSeq(msgs, 1, i),
               dropped |-> SubSeq(msgs, i + 1, messagesLen),
               rest |-> <<>>]
         ELSE [sent |-> SubSeq(msgs, 1, i),
               dropped |-> <<>>,
               rest |-> SubSeq(msgs, i + 1, messagesLen)]

\* postMessages(messages, lastChance) when the chunk at offset failAt is the
\* first whose tryPostMessages returns an error (NoFail: none does).
\*   sent    : records of the chunks sent successfully
\*   dropped : records written to the daemon log ("Failed to send a message")
\*   rest    : the returned slice
postMessages(msgs, lastChance, failAt) ==
    LET messagesLen == Len(msgs) IN
    IF failAt = NoFail
    THEN [sent |-> msgs, dropped |-> <<>>, rest |-> <<>>]
    ELSE LET i == failAt IN
         IF messagesLen - i >= bufferMaximum \/ lastChance
         THEN LET upperBound == IF lastChance
                                THEN messagesLen
                                ELSE Min(i + postMessagesBatchSize, messagesLen)
              IN [sent |-> SubSeq(msgs, 1, i),
                  dropped |-> SubSeq(msgs, i + 1, upperBound),
                  rest |-> SubSeq(msgs, upperBound + 1, messagesLen)]
         ELSE [sent |-> SubSeq(msgs, 1, i),
               dropped |-> <<>>,
               rest |-> SubSeq(msgs, i + 1, messagesLen)]

\* The effect of one postMessages call on the worker and on the outside world.
\* assign: the call site stores the returned slice (messages = l.postMessages(..)).
Flush(msgs, lastChance, o, trigger, assign) ==
    \E loop \in {SendLoop(msgs, 0, o)} :
    \E r \in {postMessages(msgs, lastChance, loop.failAt)} :
    LET failAt == loop.failAt IN
    /\ delivered' = delivered \o r.sent
    /\ logged' = logged \o r.dropped
    /\ messages' = IF assign THEN r.rest ELSE messages
    /\ lastFlush' = [trigger |-> trigger, input |-> msgs,
                     lastChance |-> lastChance, failAt |-> failAt,
                     sends |-> Attempts(msgs, failAt),
                     requests |-> loop.requests,
                     batchAt |-> IF trigger = "batch"
                                 THEN msgs[Len(msgs)]
                                 ELSE lastFlush.batchAt]

\* a % b of Go for a >= 0 and b # 0: the remainder of the truncated division
Rem(a, b) == a % (IF b < 0 THEN -b ELSE b)

\* A call of postMessages by the worker.  With a batch size below 0 the first
\* chunk of a buffer that is not empty is messages[0:upperBound] with
\* upperBound < 0, a run-time panic; with a batch size of 0 the loop over
\* such a buffer sends nothing, does not advance and so never returns.  The
\* collector decides the outcome of the sends.
PostMessages(msgs, lastChance, trigger, assign) ==
    IF msgs # <<>> /\ postMessagesBatchSize < 0
    THEN /\ panicked' = TRUE
         /\ UNCHANGED <<messages, delivered, logged, lastFlush>>
    ELSE /\ msgs # <<>> => postMessagesBatchSize # 0
         /\ \E k \in Outcomes(Len(msgs)) :
                Flush(msgs, lastChance, k, trigger, assign)
         /\ UNCHANGED panicked

\* ---- Log / queueMessageAsync ----
\* Variant of queueMessageAsync without the closedCond test.
LogBegin_noClosedTest(p) ==
    /\ ppc[p] \in {"idle", "retOk", "retClosed"}
    /\ ~panicked
    /\ nextId + Cardinality(readers) <= MaxRecords
    /\ ppc' = [ppc EXCEPT ![p] = "sending"]
    /\ readers' = readers \cup {p}
    /\ UNCHANGED <<config, stream, streamClosed, closedCond, closed, cpc, wpc,
                   messages, remote, nextId, delivered, logged, lastFlush,
                   initiator, panicked>>

\* Variant of queueMessageAsync that reports the last failed send to the caller.
LogBegin_errorAfterFailedSend(p) ==
    /\ ppc[p] \in {"idle", "retOk", "retClosed"}
    /\ ~panicked
    /\ IF closedCond \/ lastFlush.failAt # NoFail
       THEN /\ ppc' = [ppc EXCEPT ![p] = "retClosed"]
            /\ UNCHANGED readers
       ELSE /\ nextId + Cardinality(readers) <= MaxRecords
            /\ ppc' = [ppc EXCEPT ![p] = "sending"]
            /\ readers' = readers \cup {p}
    /\ UNCHANGED <<config, stream, streamClosed, closedCond, closed, cpc, wpc,
                   messages, remote, nextId, delivered, logged, lastFlush,
                   initiator, panicked>>

\* Variant of queueMessageAsync whose error return does not release the lock.
LogBegin_rejectKeepsLock(p) ==
    /\ ppc[p] \in {"idle", "retOk", "retClosed"}
    /\ ~panicked
    /\ IF closedCond
       THEN /\ ppc' = [ppc EXCEPT ![p] = "retClosed"]
            /\ readers' = readers \cup {p}
       ELSE /\ nextId + Cardinality(readers) <= MaxRecords
            /\ ppc' = [ppc EXCEPT ![p] = "sending"]
            /\ readers' = readers \cup {p}
    /\ UNCHANGED <<config, stream, streamClosed, closedCond, closed, cpc, wpc,
                   messages, remote, nextId, delivered, logged, lastFlush,
                   initiator, panicked>>

\* Variant of queueMessageAsync that does not take the read lock.
LogBegin_noRLock(p) ==
    /\ ppc[p] \in {"idle", "retOk", "retClosed"}
    /\ ~panicked
    /\ IF closedCond
       THEN /\ ppc' = [ppc EXCEPT ![p] = "retClosed"]
       ELSE /\ nextId + Cardinality({q \in Producers : ppc[q] = "sending"}) <= MaxRecords
            /\ ppc' = [ppc EXCEPT ![p] = "sending"]
    /\ UNCHANGED <<config, stream, streamClosed, closedCond, closed, cpc, wpc,
                   messages, remote, nextId, delivered, logged, lastFlush,
                   initiator, panicked, readers>>

\* RLock, then the closedCond test: a closed driver returns the error at once.
LogBegin(p) ==
    /\ ppc[p] \in {"idle", "retOk", "retClosed"}
    /\ ~panicked
    /\ IF closedCond
       THEN /\ ppc' = [ppc EXCEPT ![p] = "retClosed"]
            /\ UNCHANGED readers
       ELSE /\ nextId + Cardinality(readers) <= MaxRecords
            /\ ppc' = [ppc EXCEPT ![p] = "sending"]
            /\ readers' = readers \cup {p}
    /\ UNCHANGED <<config, stream, streamClosed, closedCond, closed, cpc, wpc,
                   messages, remote, nextId, delivered, logged, lastFlush,
                   initiator, panicked>>

\* Variant of the channel send that does not wait for room.
LogSend_noCapacity(p) ==
    /\ ppc[p] = "sending"
    /\ ~panicked
    /\ IF streamClosed
       THEN /\ panicked' = TRUE
            /\ UNCHANGED <<stream, nextId, ppc, readers>>
       ELSE /\ stream' = Append(stream, nextId)
            /\ nextId' = nextId + 1
            /\ ppc' = [ppc EXCEPT ![p] = "retOk"]
            /\ readers' = readers \ {p}
            /\ UNCHANGED panicked
    /\ UNCHANGED <<config, streamClosed, closedCond, closed, cpc, wpc, messages,
                   remote, delivered, logged, lastFlush, initiator>>

\* strings.TrimSpace on a line of characters
RECURSIVE TrimLeft(_)
TrimLeft(ln) ==
    IF ln # <<>> /\ Head(ln) \in {" ", "\t", "\n"} THEN TrimLeft(Tail(ln)) ELSE ln

RECURSIVE TrimRight(_)
TrimRight(ln) ==
    IF ln # <<>> /\ ln[Len(ln)] \in {" ", "\t", "\n"}
    THEN TrimRight(SubSeq(ln, 1, Len(ln) - 1))
    ELSE ln

TrimSpace(ln) == TrimRight(TrimLeft(ln))

\* the lines a producer logs
Lines == UNION {[1..n -> {" ", "a"}] : n \in 0..MaxLineLen}

\* Variant of the raw Log that only skips the empty line.
Log_skipsEmptyOnly(p) ==
    /\ created = "logger"
    /\ ppc[p] \in {"idle", "retOk", "retClosed"}
    /\ ~panicked
    /\ \E ln \in Lines :
          /\ line' = [line EXCEPT ![p] = ln]
          /\ IF logger.format = "raw" /\ ln = <<>>
             THEN /\ ppc' = [ppc EXCEPT ![p] = "retOk"]
                  /\ UNCHANGED readers
             ELSE IF closedCond
                  THEN /\ ppc' = [ppc EXCEPT ![p] = "retClosed"]
                       /\ UNCHANGED readers
                  ELSE /\ nextId + Cardinality(readers) <= MaxLogged
                       /\ ppc' = [ppc EXCEPT ![p] = "sending"]
                       /\ readers' = readers \cup {p}
    /\ UNCHANGED <<postMessagesBatchSize, bufferMaximum, streamChannelSize,
                   info, created, logger, stream, streamClosed, closedCond,
                   closed, cpc, wpc, messages, remote, nextId, delivered,
                   logged, lastFlush, initiator, panicked>>

\* Log(msg) of the logger New returned, up to the closedCond test of
\* queueMessageAsync: the raw logger returns nil for a line that is empty
\* once trimmed, every other line is queued (RLock, closedCond test).
Log(p) ==
    /\ created = "logger"
    /\ ppc[p] \in {"idle", "retOk", "retClosed"}
    /\ ~panicked
    /\ \E ln \in Lines :
          /\ line' = [line EXCEPT ![p] = ln]
          /\ IF logger.format = "raw" /\ TrimSpace(ln) = <<>>
             THEN /\ ppc' = [ppc EXCEPT ![p] = "retOk"]
                  /\ UNCHANGED readers
             ELSE IF closedCond
                  THEN /\ ppc' = [ppc EXCEPT ![p] = "retClosed"]
                       /\ UNCHANGED readers
                  ELSE /\ nextId + Cardinality(readers) <= MaxLogged
                       /\ ppc' = [ppc EXCEPT ![p] = "sending"]
                       /\ readers' = readers \cup {p}
    /\ UNCHANGED <<postMessagesBatchSize, bufferMaximum, streamChannelSize,
                   info, created, logger, stream, streamClosed, closedCond,
                   closed, cpc, wpc, messages, remote, nextId, delivered,
                   logged, lastFlush, initiator, panicked>>

\* l.stream <- message (blocks while the channel is full), then RUnlock.
LogSend(p) ==
    /\ ppc[p] = "sending"
    /\ ~panicked
    /\ IF streamClosed
       THEN /\ panicked' = TRUE
            /\ UNCHANGED <<stream, nextId, ppc, readers>>
       ELSE /\ Len(stream) < streamChannelSize
            /\ stream' = Append(stream, nextId)
            /\ nextId' = nextId + 1
            /\ ppc' = [ppc EXCEPT ![p] = "retOk"]
            /\ readers' = readers \ {p}
            /\ UNCHANGED panicked
    /\ UNCHANGED <<config, streamClosed, closedCond, closed, cpc, wpc, messages,
                   remote, delivered, logged, lastFlush, initiator>>

\* ---- worker ----
\* Variant of the open case that flushes after every appended record.
WorkerReceive_flushAlways ==
    /\ wpc = "loop"
    /\ ~panicked
    /\ stream # <<>>
    /\ stream' = Tail(stream)
    /\ LET appended == Append(messages, Head(stream)) IN
       \E k \in Outcomes(Len(appended)) :
           Flush(appended, FALSE, k, "batch", TRUE)
    /\ UNCHANGED <<config, streamClosed, closedCond, closed, readers, ppc, cpc,
                   wpc, remote, nextId, initiator, panicked>>

\* Variant of the open case that tests len(messages) == batch size.
WorkerReceive_triggerAtBatchSize ==
    /\ wpc = "loop"
    /\ ~panicked
    /\ stream # <<>>
    /\ stream' = Tail(stream)
    /\ LET appended == Append(messages, Head(stream)) IN
       IF Len(appended) = postMessagesBatchSize
       THEN \E k \in Outcomes(Len(appended)) :
                Flush(appended, FALSE, k, "batch", TRUE)
       ELSE /\ messages' = appended
            /\ UNCHANGED <<delivered, logged, lastFlush>>
    /\ UNCHANGED <<config, streamClosed, closedCond, closed, readers, ppc, cpc,
                   wpc, remote, nextId, initiator, panicked>>

\* Variant of the open case that also flushes on every arrival that follows a
\* failed attempt.
WorkerReceive_retryOnArrival ==
    /\ wpc = "loop"
    /\ ~panicked
    /\ stream # <<>>
    /\ stream' = Tail(stream)
    /\ LET appended == Append(messages, Head(stream)) IN
       IF Len(appended) % postMessagesBatchSize = 0 \/ lastFlush.failAt # NoFail
       THEN \E k \in Outcomes(Len(appended)) :
                Flush(appended, FALSE, k, "batch", TRUE)
       ELSE /\ messages' = appended
            /\ UNCHANGED <<delivered, logged, lastFlush>>
    /\ UNCHANGED <<config, streamClosed, closedCond, closed, readers, ppc, cpc,
                   wpc, remote, nextId, initiator, panicked>>

\* case message, open := <-l.stream with open: append, and flush when the
\* buffer length is a multiple of the batch size.  The remainder by a batch
\* size of 0 is a run-time panic.
WorkerReceive ==
    /\ wpc = "loop"
    /\ ~panicked
    /\ stream # <<>>
    /\ stream' = Tail(stream)
    /\ LET appended == Append(messages, Head(stream)) IN
       IF postMessagesBatchSize = 0
       THEN /\ panicked' = TRUE
            /\ messages' = appended
            /\ UNCHANGED <<delivered, logged, lastFlush>>
       ELSE IF Rem(Len(appended), postMessagesBatchSize) = 0
            THEN PostMessages(appended, FALSE, "batch", TRUE)
            ELSE /\ messages' = appended
                 /\ UNCHANGED <<delivered, logged, lastFlush, panicked>>
    /\ UNCHANGED <<config, streamClosed, closedCond, closed, readers, ppc, cpc,
                   wpc, remote, nextId, initiator>>

\* Variant of the timer case that only sends once a full batch is buffered.
TimerTick_fullBatchesOnly ==
    /\ wpc = "loop"
    /\ ~panicked
    /\ Len(messages) >= postMessagesBatchSize
    /\ \E k \in Outcomes(Len(messages)) :
           Flush(messages, FALSE, k, "timer", TRUE)
    /\ UNCHANGED <<config, stream, streamClosed, closedCond, closed, readers,
                   ppc, cpc, wpc, remote, nextId, initiator, panicked>>

\* Variant of the timer case that does not store the slice postMessages returns.
TimerTick_keepsBuffer ==
    /\ wpc = "loop"
    /\ ~panicked
    /\ \E k \in Outcomes(Len(messages)) :
           Flush(messages, FALSE, k, "timer", FALSE)
    /\ UNCHANGED <<config, stream, streamClosed, closedCond, closed, readers,
                   ppc, cpc, wpc, remote, nextId, initiator, panicked>>

\* case <-timer.C
TimerTick ==
    /\ wpc = "loop"
    /\ ~panicked
    /\ PostMessages(messages, FALSE, "timer", TRUE)
    /\ UNCHANGED <<config, stream, streamClosed, closedCond, closed, readers,
                   ppc, cpc, wpc, remote, nextId, initiator>>

\* Variant of the !open case that returns without the final postMessages call.
WorkerFinalFlush_noFlush ==
    /\ wpc = "loop"
    /\ ~panicked
    /\ stream = <<>>
    /\ streamClosed
    /\ wpc' = "locking"
    /\ UNCHANGED <<config, stream, streamClosed, closedCond, closed, readers,
                   ppc, cpc, remote, nextId, initiator, panicked, messages,
                   delivered, logged, lastFlush>>

\* Variant of the !open case without the return: the worker stays in its loop.
WorkerFinalFlush_noReturn ==
    /\ wpc = "loop"
    /\ ~panicked
    /\ stream = <<>>
    /\ streamClosed
    /\ \E k \in Outcomes(Len(messages)) :
           Flush(messages, TRUE, k, "close", TRUE)
    /\ UNCHANGED <<config, stream, streamClosed, closedCond, closed, readers,
                   ppc, cpc, wpc, remote, nextId, initiator, panicked>>

\* case message, open := <-l.stream with !open: the final postMessages call.
\* Its result is discarded.
WorkerFinalFlush ==
    /\ wpc = "loop"
    /\ ~panicked
    /\ stream = <<>>
    /\ streamClosed
    /\ PostMessages(messages, TRUE, "close", FALSE)
    /\ wpc' = IF panicked' THEN wpc ELSE "locking"
    /\ UNCHANGED <<config, stream, streamClosed, closedCond, closed, readers,
                   ppc, cpc, remote, nextId, initiator>>

\* Variant of the end of the worker without closedCond.Signal().
WorkerFinish_noSignal ==
    /\ wpc = "locking"
    /\ ~panicked
    /\ readers = {}
    /\ closed' = TRUE
    /\ wpc' = "done"
    /\ messages' = <<>>
    /\ UNCHANGED <<config, stream, streamClosed, closedCond, readers, ppc, cpc,
                   remote, nextId, delivered, logged, lastFlush,
                   initiator, panicked>>

\* Variant of the end of the worker without the return: the worker goes on
\* with its loop.
WorkerFinish_noReturn ==
    /\ wpc = "locking"
    /\ ~panicked
    /\ readers = {}
    /\ closed' = TRUE
    /\ cpc' = [c \in Closers |-> IF cpc[c] = "waiting" /\ c = CHOOSE w \in Closers : cpc[w] = "waiting"
                                 THEN "woken" ELSE cpc[c]]
    /\ wpc' = "loop"
    /\ UNCHANGED <<config, stream, streamClosed, closedCond, readers, ppc,
                   remote, nextId, delivered, logged, lastFlush, messages,
                   initiator, panicked>>

\* l.lock.Lock(); CloseIdleConnections; l.closed = true; Signal; Unlock; return.
\* Signal wakes one goroutine waiting on closedCond, if there is one; the
\* return ends the goroutine and with it the local buffer.
WorkerFinish ==
    /\ wpc = "locking"
    /\ ~panicked
    /\ readers = {}
    /\ closed' = TRUE
    /\ cpc' = [c \in Closers |-> IF cpc[c] = "waiting" /\ c = CHOOSE w \in Closers : cpc[w] = "waiting"
                                 THEN "woken" ELSE cpc[c]]
    /\ wpc' = "done"
    /\ messages' = <<>>
    /\ UNCHANGED <<config, stream, streamClosed, closedCond, readers, ppc,
                   remote, nextId, delivered, logged, lastFlush,
                   initiator, panicked>>

\* ---- Close ----
\* Close() is called and asks for l.lock.Lock().
CloseCall(c) ==
    /\ created = "logger"
    /\ cpc[c] = "idle"
    /\ ~panicked
    /\ cpc' = [cpc EXCEPT ![c] = "locking"]
    /\ UNCHANGED <<config, stream, streamClosed, closedCond, closed, readers,
                   ppc, wpc, messages, remote, nextId, delivered, logged,
                   lastFlush, initiator, panicked>>

\* Variant of Close without the closedCond == nil test.
CloseBegin_noNilTest(c) ==
    /\ cpc[c] = "locking"
    /\ ~panicked
    /\ readers = {}
    /\ IF streamClosed
       THEN /\ panicked' = TRUE
            /\ UNCHANGED <<closedCond, streamClosed, initiator, cpc>>
       ELSE /\ closedCond' = TRUE
            /\ streamClosed' = TRUE
            /\ initiator' = c
            /\ cpc' = [cpc EXCEPT ![c] = IF closed THEN "returned" ELSE "waiting"]
            /\ UNCHANGED panicked
    /\ UNCHANGED <<config, stream, closed, readers, ppc, wpc, messages, remote,
                   nextId, delivered, logged, lastFlush>>

\* Variant of Close that does not take l.lock.
CloseBegin_noLock(c) ==
    /\ cpc[c] = "locking"
    /\ ~panicked
    /\ IF ~closedCond
       THEN /\ closedCond' = TRUE
            /\ streamClosed' = TRUE
            /\ initiator' = c
            /\ cpc' = [cpc EXCEPT ![c] = IF closed THEN "returned" ELSE "waiting"]
       ELSE /\ cpc' = [cpc EXCEPT ![c] = "returned"]
            /\ UNCHANGED <<closedCond, streamClosed, initiator>>
    /\ UNCHANGED <<config, stream, closed, readers, ppc, wpc, messages, remote,
                   nextId, delivered, logged, lastFlush, panicked>>

\* The lock is granted; the first caller creates closedCond, closes the
\* stream (closing a closed channel panics) and waits; any other caller
\* finds closedCond != nil and returns.
CloseBegin(c) ==
    /\ cpc[c] = "locking"
    /\ ~panicked
    /\ readers = {}
    /\ IF ~closedCond
       THEN IF streamClosed
            THEN /\ panicked' = TRUE
                 /\ UNCHANGED <<closedCond, streamClosed, initiator, cpc>>
            ELSE /\ closedCond' = TRUE
                 /\ streamClosed' = TRUE
                 /\ initiator' = c
                 /\ cpc' = [cpc EXCEPT ![c] = IF closed THEN "returned" ELSE "waiting"]
                 /\ UNCHANGED panicked
       ELSE /\ cpc' = [cpc EXCEPT ![c] = "returned"]
            /\ UNCHANGED <<closedCond, streamClosed, initiator, panicked>>
    /\ UNCHANGED <<config, stream, closed, readers, ppc, wpc, messages, remote,
                   nextId, delivered, logged, lastFlush>>

\* closedCond.Wait() returns with the lock held; the loop re-tests l.closed.
CloseWake(c) ==
    /\ cpc[c] = "woken"
    /\ ~panicked
    /\ readers = {}
    /\ cpc' = [cpc EXCEPT ![c] = IF closed THEN "returned" ELSE "waiting"]
    /\ UNCHANGED <<config, stream, streamClosed, closedCond, closed, readers,
                   ppc, wpc, messages, remote, nextId, delivered, logged,
                   lastFlush, initiator, panicked>>

\* ---- the collector ----
\* From here on every request is answered with 200.
Recover ==
    /\ remote = "flaky"
    /\ remote' = "healthy"
    /\ UNCHANGED <<config, stream, streamClosed, closedCond, closed, readers,
                   ppc, cpc, wpc, messages, nextId, delivered, logged,
                   lastFlush, initiator, panicked>>

\* From here on every request fails.
Break ==
    /\ remote = "flaky"
    /\ remote' = "down"
    /\ UNCHANGED <<config, stream, streamClosed, closedCond, closed, readers,
                   ppc, cpc, wpc, messages, nextId, delivered, logged,
                   lastFlush, initiator, panicked>>

Next ==
    \/ \E p \in Producers : LogBegin(p)
    \/ \E p \in Producers : LogSend(p)
    \/ WorkerReceive
    \/ TimerTick
    \/ WorkerFinalFlush
    \/ WorkerFinish
    \/ \E c \in Closers : CloseCall(c)
    \/ \E c \in Closers : CloseBegin(c)
    \/ \E c \in Closers : CloseWake(c)

\* The collector may fail any request at any time.
Spec == Init /\ [][Next]_vars

\* One producer, one Close() caller and a collector that recovers or goes
\* down for good.
LiveNext ==
    \/ LogBegin("p1")
    \/ LogSend("p1")
    \/ WorkerReceive
    \/ TimerTick
    \/ WorkerFinalFlush
    \/ WorkerFinish
    \/ CloseCall("c1")
    \/ CloseBegin("c1")
    \/ CloseWake("c1")
    \/ Recover
    \/ Break

\* The ticker keeps firing and the worker's select keeps serving it.
LiveSpec ==
    /\ Init
    /\ [][LiveNext]_vars
    /\ WF_vars(TimerTick)
    /\ WF_vars(WorkerReceive)
    /\ WF_vars(WorkerFinalFlush)
    /\ WF_vars(WorkerFinish)

\* ---- the driver from New on ----
\* splunk-url and splunk-token set, nothing else; the collector answers the
\* pre-flight request with 200
BaseInfo == [NoInfo EXCEPT !.url = "https://splunk:8088", !.token = "token"]

\* an option, an environment variable or a condition of the host with a value
\* other than that of BaseInfo
Settings ==
    {<<"hostname", FALSE>>, <<"attrs", FALSE>>, <<"token", Absent>>}
    \cup ({"url"} \X {Absent, "ftp://splunk:8088", "https://splunk:8088/a?b",
                       "splunk", ":"})
    \cup ({"insecureskipverify"} \X {"true", "yes"})
    \cup ({"capath"} \X {"/ca.pem", "/missing.pem"})
    \cup ({"gzip"} \X {"true", "yes"})
    \cup ({"gzipLevel"} \X {"9", "10", "best"})
    \cup ({"indexAck"} \X {"1", "yes"})
    \cup ({"tag"} \X {"", "{{"})
    \cup ({"verify"} \X {"false", "yes"})
    \cup ({"format"} \X {"inline", "json", "raw", "xml"})
    \cup ({"envFrequency"} \X {"1s", "often"})
    \cup ({"envBatchSize"} \X {"2", "0", "-1", "many"})
    \cup ({"envBufferMaximum"} \X {"3", "many"})
    \cup ({"envChannelSize"} \X {"2", "many"})
    \cup ({"preflight"} \X {NoContent, Unavailable, TransportError})

\* BaseInfo with at most k further settings
RECURSIVE InfosWith(_)
InfosWith(k) ==
    IF k = 0
    THEN {BaseInfo}
    ELSE LET fewer == InfosWith(k - 1) IN
         fewer \cup {[i EXCEPT ![st[1]] = st[2]] : i \in fewer, st \in Settings}

\* New has not been called yet: there is no logger and no worker.
DriverInit ==
    /\ info \in InfosWith(MaxOptions)
    /\ created = "none"
    /\ logger = NoLogger
    /\ postMessagesBatchSize = 0
    /\ bufferMaximum = 0
    /\ streamChannelSize = 0
    /\ stream = <<>>
    /\ streamClosed = FALSE
    /\ closedCond = FALSE
    /\ closed = FALSE
    /\ readers = {}
    /\ ppc = [p \in Producers |-> "idle"]
    /\ cpc = [c \in Closers |-> "idle"]
    /\ wpc = "none"
    /\ messages = <<>>
    /\ remote = "any"
    /\ nextId = 1
    /\ delivered = <<>>
    /\ logged = <<>>
    /\ lastFlush = NoFlush
    /\ initiator = "none"
    /\ panicked = FALSE
    /\ line = [p \in Producers |-> <<>>]

\* New, then one producer and one Close() caller.
DriverNext ==
    \/ New
    \/ Log("p1")
    \/ LogSend("p1")
    \/ WorkerReceive
    \/ TimerTick
    \/ WorkerFinalFlush
    \/ WorkerFinish
    \/ CloseCall("c1")
    \/ CloseBegin("c1")
    \/ CloseWake("c1")

\* The collector answers any request with any status or not at all.
DriverSpec == DriverInit /\ [][DriverNext]_vars

\* The collector answers every request with 200 from the start.
HealthySpec == InitWith("healthy") /\ [][Next]_vars

\* Two producers and one Close() caller.
FairNext ==
    \/ \E p \in Producers : LogBegin(p)
    \/ \E p \in Producers : LogSend(p)
    \/ WorkerReceive
    \/ TimerTick
    \/ WorkerFinalFlush
    \/ WorkerFinish
    \/ CloseCall("c1")
    \/ CloseBegin("c1")
    \/ CloseWake("c1")

\* Every goroutine that can run is scheduled: the worker's select serves the
\* stream and the ticker, every send attempt ends (batchSendTimeout), a
\* sender blocked on the channel is served once there is room (senders queue
\* in FIFO order), and a goroutine waiting for the lock or woken by Signal
\* gets to run.
FairSpec ==
    /\ Init
    /\ [][FairNext]_vars
    /\ WF_vars(WorkerReceive)
    /\ WF_vars(TimerTick)
    /\ WF_vars(WorkerFinalFlush)
    /\ WF_vars(WorkerFinish)
    /\ \A p \in Producers : SF_vars(LogSend(p))
    /\ WF_vars(CloseBegin("c1"))
    /\ WF_vars(CloseWake("c1"))

TypeOK ==
    /\ Len(stream) <= streamChannelSize
    /\ nextId \in 1..(MaxRecords + 1)

\* ---- vocabulary of the properties ----
Accepted == 1..(nextId - 1)
Delivered == SeqRange(delivered)
Logged == SeqRange(logged)
\* number of records the worker has taken from the stream
Received == nextId - 1 - Len(stream)
IsPrefix(s, t) == Len(s) <= Len(t) /\ SubSeq(t, 1, Len(s)) = s
Occurrences(s, x) == Cardinality({n \in 1..Len(s) : s[n] = x})
FirstCloseReturned == initiator # "none" /\ cpc[initiator] = "returned"
\* the most recent flush was a non-final one whose chunk at failAt failed
FailedFlush ==
    /\ lastFlush.trigger \in {"batch", "timer"}
    /\ lastFlush.failAt # NoFail
\* records of the most recent flush from its failing chunk to the end
Pending == Len(lastFlush.input) - lastFlush.failAt

\* C1: once the first Close() call has returned, every record whose enqueue
\* succeeded has been delivered by a successful send or written to the daemon
\* log; the stream is empty and the worker holds no buffer.
C1_NothingPendingAfterClose ==
    FirstCloseReturned =>
        /\ \A r \in Accepted : r \in Delivered \cup Logged
        /\ stream = <<>>
        /\ messages = <<>>

C1_Witness ==
    /\ FirstCloseReturned
    /\ lastFlush.failAt # NoFail
    /\ Len(lastFlush.input) - lastFlush.failAt > postMessagesBatchSize
    /\ delivered # <<>>

\* C2: the records of the successful sends, concatenated in send order, appear
\* in the order in which they entered the stream (identities are entry
\* positions, so the sequence is strictly increasing).
C2_DeliveredInIntakeOrder ==
    \A a, b \in 1..Len(delivered) : a < b => delivered[a] < delivered[b]

C2_Witness ==
    /\ Len(delivered) >= 2
    /\ \E n \in 1..(Len(delivered) - 1) : delivered[n + 1] > delivered[n] + 1
    /\ FailedFlush

\* C3: a Close() call that has returned implies that the worker has finished
\* its terminal flush and set closed.
C3_EveryCloseWaitsForWorker ==
    \A c \in Closers : cpc[c] = "returned" => closed

\* C4: while closedCond is set no producer is past the closedCond test, every
\* enqueue call that completes returns the driver-closed error, and nothing is
\* placed in the stream.
C4_ClosedDriverRejects ==
    [][closedCond =>
          /\ \A p \in Producers : ppc[p] # "sending"
          /\ \A p \in Producers : ppc'[p] # ppc[p] => ppc'[p] = "retClosed"
          /\ nextId' = nextId
          /\ stream' = stream \/ (stream # <<>> /\ stream' = Tail(stream))]_vars

C4_Witness ==
    /\ \E p \in Producers : ppc[p] = "retClosed"
    /\ wpc = "loop"
    /\ stream # <<>>

\* C5: after a failed send in a non-final flush of fewer than bufferMaximum
\* records, nothing of that flush is in the daemon log and the records from
\* the failing chunk onward head the buffer, unchanged and in order.
C5_FailureBelowMaximumRetains ==
    (FailedFlush /\ Len(lastFlush.input) < bufferMaximum) =>
        /\ SeqRange(lastFlush.input) \cap Logged = {}
        /\ IsPrefix(SubSeq(lastFlush.input, lastFlush.failAt + 1,
                           Len(lastFlush.input)), messages)

C5_Witness ==
    /\ FailedFlush
    /\ Len(lastFlush.input) < bufferMaximum
    /\ lastFlush.failAt > 0
    /\ Len(lastFlush.input) > lastFlush.failAt + 1

\* C6: once the collector answers every request with success, and with the
\* timer ticking, every record in the worker's buffer is eventually delivered.
C6_RetainedEventuallyDelivered ==
    \A r \in 1..MaxRecords :
        (remote = "healthy" /\ wpc = "loop" /\ r \in SeqRange(messages))
            ~> (r \in Delivered)

\* A timer flush of at least a full batch can only follow a failed batch
\* trigger, so these records were retained after a failure.
C6_Witness ==
    /\ remote = "healthy"
    /\ lastFlush.trigger = "timer"
    /\ lastFlush.failAt = NoFail
    /\ Len(lastFlush.input) >= postMessagesBatchSize
    /\ SeqRange(lastFlush.input) \subseteq Delivered

\* the example of the specification: batch size 2, buffer maximum 4, every
\* send attempted so far has failed
Scenario ==
    /\ postMessagesBatchSize = 2
    /\ bufferMaximum = 4
    /\ delivered = <<>>
    /\ wpc = "loop"

\* C7 as stated: in the scenario, the failure at r4 drops r1..r4, so that the
\* buffer is exactly [r5] once r5 is appended.
C7_OverflowDropsFour ==
    /\ (Scenario /\ Received = 2) => (messages = <<1, 2>> /\ logged = <<>>)
    /\ (Scenario /\ Received = 5) => (messages = <<5>> /\ logged = <<1, 2, 3, 4>>)

\* C7 as amended: in the scenario, the failure at r2 retains [r1,r2]; the
\* failure at r4 logs and drops the failing chunk r1,r2 only and retains
\* [r3,r4]; with r5 the buffer is [r3,r4,r5], and a timer flush of it fails
\* at its first chunk [r3,r4] and retains all three records.
C7_OverflowDropsOneChunk ==
    /\ (Scenario /\ Received = 2) => (messages = <<1, 2>> /\ logged = <<>>)
    /\ (Scenario /\ Received = 4) => (messages = <<3, 4>> /\ logged = <<1, 2>>)
    /\ (Scenario /\ Received = 5) =>
           /\ messages = <<3, 4, 5>>
           /\ logged = <<1, 2>>
           /\ (lastFlush.trigger = "timer" /\ 5 \in SeqRange(lastFlush.input)) =>
                  (lastFlush.input = <<3, 4, 5>> /\ lastFlush.failAt = 0)

C7_Witness ==
    /\ Scenario
    /\ Received = 5
    /\ lastFlush.trigger = "timer"
    /\ lastFlush.input = <<3, 4, 5>>

\* C8: after a send failed in a non-final flush with at least bufferMaximum
\* records pending from the failing chunk, a non-empty range of records
\* starting at the failing chunk has been dropped: each is in the daemon log
\* exactly once and is neither delivered nor buffered nor queued, and the
\* records after that range head the buffer.  No record is ever logged twice
\* or both logged and delivered.
C8_OverflowDropsOldestOnce ==
    /\ \A r \in Logged : Occurrences(logged, r) = 1 /\ r \notin Delivered
    /\ wpc = "loop" => Logged \cap SeqRange(messages) = {}
    /\ (FailedFlush /\ Pending >= bufferMaximum /\ wpc = "loop") =>
           \E ub \in (lastFlush.failAt + 1)..Len(lastFlush.input) :
               /\ \A n \in (lastFlush.failAt + 1)..ub :
                      lastFlush.input[n] \in Logged
               /\ IsPrefix(SubSeq(lastFlush.input, ub + 1, Len(lastFlush.input)),
                           messages)

C8_Witness ==
    /\ FailedFlush
    /\ Pending >= bufferMaximum
    /\ wpc = "loop"
    /\ messages # <<>>
    /\ \E r \in Logged : r + 1 \in Delivered

C10_BufferWithinMaximum ==
    Len(messages) <= bufferMaximum

\* the worker takes a record from the stream in this step
ReceiveStep == stream # <<>> /\ stream' = Tail(stream)

\* C11: every chunk handed to a send attempt holds at most batchSize records
\* in intake order, in the terminal flush as in any other.
C11_SendsAreOrderedBatches ==
    \A k \in 1..Len(lastFlush.sends) :
        LET c == lastFlush.sends[k] IN
        /\ Len(c) <= postMessagesBatchSize
        /\ \A a, b \in 1..Len(c) : a < b => c[a] < c[b]

C11_Witness ==
    /\ lastFlush.lastChance
    /\ Len(lastFlush.input) > postMessagesBatchSize
    /\ Len(lastFlush.sends) >= 2

C13_CountMultipleTriggers ==
    [][(ReceiveStep /\ (Received + 1) % postMessagesBatchSize = 0) =>
          /\ lastFlush'.trigger = "batch"
          /\ Head(stream) \in SeqRange(lastFlush'.input)
          /\ Len(lastFlush'.sends[1]) = postMessagesBatchSize]_vars

\* C13 as amended: the arrival of a record that makes the length of the
\* unsent buffer a multiple of batchSize triggers, in the same step and
\* without the timer, a flush of the whole buffer whose requests are full
\* batches.
C13_BufferMultipleTriggers ==
    [][(ReceiveStep /\ (Len(messages) + 1) % postMessagesBatchSize = 0) =>
          /\ lastFlush'.trigger = "batch"
          /\ lastFlush'.input = Append(messages, Head(stream))
          /\ \A k \in 1..Len(lastFlush'.sends) :
                 Len(lastFlush'.sends[k]) = postMessagesBatchSize]_vars

\* a batch-triggered flush at an arrival count that is no multiple of batchSize
C13_Witness ==
    /\ wpc = "loop"
    /\ lastFlush.trigger = "batch"
    /\ lastFlush.input[Len(lastFlush.input)] = Received
    /\ Received % postMessagesBatchSize # 0
    /\ Len(lastFlush.input) > postMessagesBatchSize

\* r was in a chunk handed to a send attempt by the most recent flush
InAttempt(r) ==
    \E k \in 1..Len(lastFlush.sends) : r \in SeqRange(lastFlush.sends[k])
\* r was in the most recent flush, after the chunk whose send failed
BehindFailure(r) ==
    /\ lastFlush.failAt # NoFail
    /\ \E n \in (lastFlush.failAt + postMessagesBatchSize + 1)..Len(lastFlush.input) :
           lastFlush.input[n] = r

\* C14 as stated: with the timer ticking, every record in the buffer is
\* eventually part of a send attempt or logged as dropped.
C14_EveryRecordAttempted ==
    \A r \in 1..MaxRecords :
        (wpc = "loop" /\ r \in SeqRange(messages))
            ~> (InAttempt(r) \/ r \in Logged)

\* C14 as amended: with the timer ticking, every record in the buffer is
\* eventually part of a flush, in which it is handed to a send attempt or
\* logged as dropped unless the send of an earlier chunk fails.
C14_EveryRecordFlushed ==
    \A r \in 1..MaxRecords :
        (wpc = "loop" /\ r \in SeqRange(messages))
            ~> (InAttempt(r) \/ r \in Logged \/ BehindFailure(r))

C14_Witness ==
    /\ lastFlush.trigger = "timer"
    /\ lastFlush.failAt # NoFail
    /\ Len(lastFlush.input) % postMessagesBatchSize # 0
    /\ \E r \in SeqRange(messages) : BehindFailure(r)

\* C15: a producer that is past the closedCond test, possibly blocked on the
\* full stream, eventually returns from its call.
C15_ProducerEventuallyReturns ==
    \A p \in Producers :
        (ppc[p] = "sending") ~> (ppc[p] \in {"retOk", "retClosed"})

C15_Witness ==
    /\ \E p \in Producers : ppc[p] = "sending"
    /\ Len(stream) = streamChannelSize
    /\ cpc["c1"] = "locking"

\* C16: the stream never holds more than its capacity and holds the records
\* in entry order; while it is full no record enters it; the worker takes
\* the oldest record and takes it into its buffer or its flush.
C16_BoundedFifoQueue ==
    /\ [](/\ Len(stream) <= streamChannelSize
          /\ stream = [k \in 1..Len(stream) |-> Received + k])
    /\ [][/\ Len(stream) = streamChannelSize =>
                 (nextId' = nextId /\ Len(stream') <= Len(stream))
          /\ ReceiveStep =>
                 Head(stream) \in SeqRange(messages') \cup SeqRange(delivered')
                                    \cup SeqRange(logged')]_vars

C16_Witness ==
    /\ Len(stream) = streamChannelSize
    /\ \A p \in Producers : ppc[p] = "sending"
    /\ wpc = "loop"

\* C17: a step of an enqueue call yields success or the driver-closed error
\* only, the error exactly when closedCond is set, and is not a step in
\* which anything is sent or logged.
C17_OnlyClosedErrorToProducer ==
    [][\A p \in Producers : ppc'[p] # ppc[p] =>
          /\ ppc'[p] \in {"sending", "retOk", "retClosed"}
          /\ ppc'[p] = "retClosed" <=> closedCond
          /\ UNCHANGED <<delivered, logged, lastFlush>>]_vars

C17_Witness ==
    /\ \E p \in Producers : ppc[p] = "retOk"
    /\ FailedFlush
    /\ logged # <<>>
    /\ ~closedCond

\* C18: an enqueue call that is rejected changes neither the stream, the
\* buffer, the shutdown state nor the lock, and once a call has been rejected
\* the worker still reaches the end of its terminal flush.
C18_RejectionChangesNothing ==
    /\ [][\A p \in Producers :
             (ppc'[p] = "retClosed" /\ ppc[p] # "retClosed") =>
                 UNCHANGED <<stream, messages, streamClosed, closedCond, closed,
                             readers, cpc, wpc, delivered, logged, lastFlush,
                             initiator, nextId>>]_vars
    /\ (\E p \in Producers : ppc[p] = "retClosed") ~> (wpc = "done")

C18_Witness ==
    /\ \E p \in Producers : ppc[p] = "retClosed"
    /\ wpc = "done"
    /\ lastFlush.input # <<>>
    /\ cpc["c1"] = "returned"

\* C19: the stream is closed exactly when closedCond is set, never twice;
\* once a Close() call has started the shutdown it stays started by the same
\* call, and only the call that finds closedCond unset waits for the worker.
C19_CloseIsIdempotent ==
    /\ [](/\ ~panicked
          /\ streamClosed <=> closedCond
          /\ closedCond <=> initiator # "none")
    /\ [][/\ closedCond => (closedCond' /\ streamClosed' /\ initiator' = initiator)
          /\ \A c \in Closers :
                 (cpc[c] = "locking" /\ cpc'[c] = "waiting") =>
                     (~closedCond /\ initiator' = c)]_vars

C19_Witness ==
    /\ \A c \in Closers : cpc[c] = "returned"
    /\ ~panicked

\* the state of the shutdown
Phase == IF closed THEN "Closed" ELSE IF closedCond THEN "Closing" ELSE "Open"

\* C20: the shutdown state only steps Open -> Closing -> Closed; closed is set
\* by the worker's return after its terminal flush and never reverts.
C20_ShutdownOnlyAdvances ==
    [][/\ <<Phase, Phase'>> \in {<<"Open", "Open">>, <<"Open", "Closing">>,
                                 <<"Closing", "Closing">>, <<"Closing", "Closed">>,
                                 <<"Closed", "Closed">>}
       /\ closed => closed'
       /\ (~closed /\ closed') =>
              (wpc = "locking" /\ wpc' = "done" /\ lastFlush.lastChance)]_vars

C20_Witness ==
    /\ closed
    /\ lastFlush.lastChance
    /\ lastFlush.input # <<>>
    /\ \E c \in Closers : cpc[c] = "woken"

\* ---- the driver from New on: properties ----
\* every character of the line is white space
Blank(ln) == \A k \in 1..Len(ln) : ln[k] \in {" ", "\t", "\n", "\r"}

\* producer p calls Log in this step
LogCallStep(p) ==
    /\ ppc[p] \in {"idle", "retOk", "retClosed"}
    /\ ppc'[p] # ppc[p] \/ line'[p] # line[p]

\* C21: a Log call of the raw logger with an empty or white-space-only line
\* returns nil and changes neither the stream nor anything else of the
\* pipeline: no record enters, none is sent, none is logged.
C21_BlankRawLineSuppressed ==
    [][\A p \in Producers :
          (LogCallStep(p) /\ logger.format = "raw" /\ Blank(line'[p])) =>
              /\ ppc'[p] = "retOk"
              /\ UNCHANGED <<stream, nextId, readers, messages, delivered,
                             logged, lastFlush, streamClosed, closedCond,
                             closed, wpc>>]_vars

C21_Witness ==
    /\ logger.format = "raw"
    /\ line["p1"] = <<" ">>
    /\ ppc["p1"] = "retOk"
    /\ nextId = 2
    /\ delivered = <<1>>
    /\ stream = <<>>

\* the request was not answered with status 200
Failed(q) == q.answer.err \/ q.answer.status # 200

\* the events of the requests answered with status 200, in order
RECURSIVE OkEvents(_)
OkEvents(reqs) ==
    IF reqs = <<>>
    THEN <<>>
    ELSE (IF Failed(Head(reqs)) THEN <<>> ELSE Head(reqs).events)
             \o OkEvents(Tail(reqs))

\* a postMessages call that changed something is made in this step
FlushStep ==
    lastFlush' # lastFlush \/ delivered' # delivered \/ logged' # logged

\* C22: the records a flush counts as sent are those of its requests
\* answered with status 200; the records of a request with any other status,
\* or with no response, stay in the buffer or are written to the daemon log.
C22_OnlyStatus200Succeeds ==
    [][FlushStep =>
          /\ delivered' = delivered \o OkEvents(lastFlush'.requests)
          /\ \A k \in 1..Len(lastFlush'.requests) :
                 LET q == lastFlush'.requests[k] IN
                 Failed(q) =>
                     /\ lastFlush'.failAt # NoFail
                     /\ \A r \in SeqRange(q.events) :
                            /\ r \notin SeqRange(delivered')
                            /\ r \in SeqRange(messages') \cup SeqRange(logged')]_vars

C22_Witness ==
    /\ lastFlush.requests # <<>>
    /\ lastFlush.requests[Len(lastFlush.requests)].answer = NoContent
    /\ lastFlush.failAt # NoFail
    /\ lastFlush.trigger = "timer"
    /\ SeqRange(lastFlush.input) \subseteq SeqRange(messages)

\* C23: no request carries zero events, and a flush of an empty buffer
\* issues no request, fails nowhere and leaves the buffer empty.
C23_EmptyFlushSendsNothing ==
    /\ [](\A k \in 1..Len(lastFlush.requests) :
              lastFlush.requests[k].events # <<>>)
    /\ [][(FlushStep /\ lastFlush'.input = <<>>) =>
              /\ lastFlush'.requests = <<>>
              /\ lastFlush'.failAt = NoFail
              /\ messages' = <<>>
              /\ UNCHANGED <<delivered, logged>>]_vars

C23_Witness ==
    /\ lastFlush.trigger = "timer"
    /\ lastFlush.input = <<>>
    /\ lastFlush.requests = <<>>
    /\ delivered # <<>>
    /\ messages = <<>>

\* New returns in this step
NewStep == created = "none" /\ created' # "none"

\* the strings strconv.ParseBool accepts
BoolStrings ==
    {"1", "t", "T", "TRUE", "true", "True", "0", "f", "F", "FALSE", "false", "False"}

\* a required option is missing, the URL is malformed, an option holding a
\* boolean or the gzip level is invalid, or the format is unsupported
InvalidOption(i) ==
    \/ i.url # "https://splunk:8088"
    \/ i.token = Absent
    \/ \E v \in {i.insecureskipverify, i.gzip, i.indexAck, i.verify} :
           v # Absent /\ v \notin BoolStrings
    \/ i.gzipLevel \notin {Absent, "9"}
    \/ i.format \notin {Absent, "inline", "json", "raw"}

\* C24 as stated: New returns an error and starts no worker whenever an
\* option is invalid or the duration of the environment is.
C24_InvalidConfigFailsNew ==
    [][(NewStep /\ (InvalidOption(info) \/ info.envFrequency \notin {"", "1s"})) =>
          (created' = "error" /\ wpc' = "none")]_vars

\* C24 as amended: New returns an error and starts no worker whenever an
\* option is invalid; a value of the environment that does not parse is not
\* fatal, the default is used in its place.
C24_InvalidOptionFailsNew ==
    [][NewStep =>
          /\ InvalidOption(info) => (created' = "error" /\ wpc' = "none")
          /\ created' = "logger" =>
                 /\ info.envFrequency \notin {"1s"} =>
                        logger'.postMessagesFrequency = "5s"
                 /\ info.envBatchSize \notin {"2", "0", "-1"} =>
                        postMessagesBatchSize' = 1000
                 /\ info.envBufferMaximum \notin {"3"} =>
                        bufferMaximum' = 10000
                 /\ info.envChannelSize \notin {"2"} =>
                        streamChannelSize' = 4000]_vars

C24_Witness ==
    /\ created = "error"
    /\ info.format = "xml"
    /\ info.preflight = Ok
    /\ wpc = "none"

\* the pre-flight verification is not switched off
VerifyEnabled(i) == i.verify \in {Absent, "1", "t", "T", "TRUE", "true", "True"}

\* C25: with the verification enabled, New returns an error and starts no
\* worker when the OPTIONS request fails or is answered with another status
\* than 200; after an error of New nothing is ever queued or sent.
C25_FailedPreflightAbortsNew ==
    /\ [][(NewStep /\ VerifyEnabled(info)
             /\ (info.preflight.err \/ info.preflight.status # 200)) =>
              (created' = "error" /\ wpc' = "none")]_vars
    /\ [](created = "error" =>
              /\ wpc = "none"
              /\ nextId = 1
              /\ stream = <<>>
              /\ lastFlush = NoFlush
              /\ \A p \in Producers : ppc[p] = "idle")

C25_Witness ==
    /\ created = "error"
    /\ info = [BaseInfo EXCEPT !.preflight = NoContent]
    /\ wpc = "none"

\* C26: every POST request carries the Authorization header of the token,
\* the Content-Encoding header exactly when gzipCompression is set and the
\* X-Splunk-Request-Channel header exactly when indexAck is set.
C26_RequestHeaders ==
    \A k \in 1..Len(lastFlush.requests) :
        LET q == lastFlush.requests[k] IN
        /\ q.method = "POST"
        /\ q.Authorization = <<"Splunk", "token">>
        /\ (q.ContentEncoding = "gzip") <=> logger.gzipCompression
        /\ (q.ContentEncoding # "gzip") => (q.ContentEncoding = Absent /\ ~q.gzipped)
        /\ (q.RequestChannel # Absent) <=> logger.indexAck

C26_Witness ==
    /\ logger.gzipCompression
    /\ ~logger.indexAck
    /\ Len(lastFlush.requests) = 1
    /\ lastFlush.requests[1].ContentEncoding = "gzip"
    /\ lastFlush.requests[1].RequestChannel = Absent

\* ---- one flush, request by request ----
\* C27: the requests of a flush carry the chunks of its input in offset
\* order, each after the one before was answered; only the last request of a
\* flush can have failed, and it is the request of the chunk at failAt,
\* whatever becomes of the records from there on.
C27_NoSendAfterFailure ==
    LET reqs == lastFlush.requests
        n == Len(lastFlush.input)
    IN /\ \A k \in 1..Len(reqs) :
              /\ reqs[k].events =
                     SubSeq(lastFlush.input, (k - 1) * postMessagesBatchSize + 1,
                            Min(k * postMessagesBatchSize, n))
              /\ k < Len(reqs) => ~Failed(reqs[k])
       /\ IF reqs # <<>> /\ Failed(reqs[Len(reqs)])
          THEN lastFlush.failAt = (Len(reqs) - 1) * postMessagesBatchSize
          ELSE /\ lastFlush.failAt = NoFail
               /\ Len(reqs) * postMessagesBatchSize >= n

C27_Witness ==
    /\ lastFlush.failAt > 0
    /\ Len(lastFlush.input) > lastFlush.failAt + postMessagesBatchSize
    /\ Len(lastFlush.requests) = 2
    /\ lastFlush.lastChance

\* the most recent flush, seen from the step that makes it: a non-final flush
\* whose chunk at failAt failed
FailingFlushStep ==
    /\ FlushStep
    /\ lastFlush'.trigger \in {"batch", "timer"}
    /\ lastFlush'.failAt # NoFail

\* C28: in a non-final flush the records are dropped exactly when the count
\* from the failing chunk to the end of the buffer has reached bufferMaximum;
\* below that the records from the failing chunk on are all retained, however
\* long the whole buffer is.
C28_OverflowCountsFromFailure ==
    [][FailingFlushStep =>
          LET n == Len(lastFlush'.input)
              i == lastFlush'.failAt
          IN /\ (n - i < bufferMaximum) =>
                    /\ logged' = logged
                    /\ messages' = SubSeq(lastFlush'.input, i + 1, n)
             /\ (n - i >= bufferMaximum) => logged' # logged]_vars

C28_Witness ==
    /\ FailedFlush
    /\ lastFlush.failAt > 0
    /\ Len(lastFlush.input) >= bufferMaximum
    /\ Pending < bufferMaximum
    /\ messages = SubSeq(lastFlush.input, lastFlush.failAt + 1, Len(lastFlush.input))
    /\ logged = <<>>

\* C29: the daemon log of unsent records grows only in a step that is a flush
\* whose last request failed, by records starting with the first record of
\* that request; it does not grow when a record enters the stream, when the
\* worker appends one to its buffer, or in a flush without a failed request.
C29_DropOnlyAfterFailedSend ==
    [][logged' # logged =>
          LET reqs == lastFlush'.requests IN
          /\ reqs # <<>>
          /\ Failed(reqs[Len(reqs)])
          /\ lastFlush'.failAt # NoFail
          /\ Len(logged') > Len(logged)
          /\ SubSeq(logged', 1, Len(logged)) = logged
          /\ logged'[Len(logged) + 1] = reqs[Len(reqs)].events[1]
          /\ logged'[Len(logged) + 1] = lastFlush'.input[lastFlush'.failAt + 1]
          /\ UNCHANGED <<nextId, ppc, readers>>]_vars

C29_Witness ==
    /\ FailedFlush
    /\ Pending >= bufferMaximum
    /\ logged # <<>>
    /\ logged[Len(logged)] \in SeqRange(lastFlush.input)
    /\ delivered # <<>>
    /\ lastFlush.trigger = "batch"

\* C30: an overflow in a non-final flush logs the records of the failing
\* chunk, at most batchSize of them and nothing else, and returns every
\* record after that chunk as the new buffer.
C30_OverflowDropsFailingChunkOnly ==
    [][FailingFlushStep =>
          LET n == Len(lastFlush'.input)
              i == lastFlush'.failAt
              ub == Min(i + postMessagesBatchSize, n)
          IN (n - i >= bufferMaximum) =>
                 /\ logged' = logged \o SubSeq(lastFlush'.input, i + 1, ub)
                 /\ Len(logged') - Len(logged) \in 1..postMessagesBatchSize
                 /\ messages' = SubSeq(lastFlush'.input, ub + 1, n)
                 /\ delivered' = delivered \o SubSeq(lastFlush'.input, 1, i)]_vars

C30_Witness ==
    /\ FailedFlush
    /\ Pending >= bufferMaximum
    /\ Pending > postMessagesBatchSize
    /\ messages # <<>>
    /\ messages = SubSeq(lastFlush.input,
                         lastFlush.failAt + postMessagesBatchSize + 1,
                         Len(lastFlush.input))
    /\ Len(logged) = postMessagesBatchSize

\* what a step appends to a sequence that only grows
Added(old, new) == SubSeq(new, Len(old) + 1, Len(new))

\* C31: a flush splits its input into the records it sent (whole chunks from
\* the start), the records it logged as dropped and the slice it returns, in
\* this order and with nothing left out or repeated; the returned slice is
\* empty when lastChance is set or when every send succeeded.  The slice a
\* final flush returns is not stored by the worker.
C31_FlushSplitsInput ==
    [][FlushStep =>
          LET f == lastFlush'
              sent == Added(delivered, delivered')
              dropped == Added(logged, logged')
              rest == IF f.lastChance
                      THEN postMessages(f.input, TRUE, f.failAt).rest
                      ELSE messages'
          IN /\ IsPrefix(delivered, delivered')
             /\ IsPrefix(logged, logged')
             /\ sent \o dropped \o rest = f.input
             /\ Len(sent) = IF f.failAt = NoFail THEN Len(f.input) ELSE f.failAt
             /\ Len(sent) % postMessagesBatchSize = 0 \/ Len(sent) = Len(f.input)
             /\ (f.lastChance \/ f.failAt = NoFail) => rest = <<>>]_vars

C31_Witness ==
    /\ lastFlush.trigger = "close"
    /\ lastFlush.lastChance
    /\ lastFlush.failAt > 0
    /\ Len(lastFlush.input) > lastFlush.failAt + 1
    /\ delivered = SubSeq(lastFlush.input, 1, lastFlush.failAt)
    /\ logged = SubSeq(lastFlush.input, lastFlush.failAt + 1, Len(lastFlush.input))
    /\ wpc = "locking"

\* the arrival of the record at the head of the stream triggers a flush
ArrivalFlushStep == ReceiveStep /\ lastFlush'.batchAt = Head(stream)

\* C32: the arrival of a record triggers a flush exactly when the buffer with
\* that record holds a multiple of batchSize records, and the record of an
\* arrival-triggered flush is at least batchSize records after the record of
\* the one before (and after the start): records are numbered in the order in
\* which the worker receives them.
C32_ArrivalFlushEveryBatchSize ==
    /\ [][ReceiveStep =>
             /\ (lastFlush'.batchAt = Head(stream)) <=>
                    ((Len(messages) + 1) % postMessagesBatchSize = 0)
             /\ lastFlush'.batchAt # Head(stream) =>
                    /\ messages' = Append(messages, Head(stream))
                    /\ UNCHANGED <<lastFlush, delivered, logged>>]_vars
    /\ [][ArrivalFlushStep =>
             /\ lastFlush'.trigger = "batch"
             /\ Head(stream) - lastFlush.batchAt >= postMessagesBatchSize]_vars

C32_Witness ==
    /\ postMessagesBatchSize = 2
    /\ lastFlush.trigger = "batch"
    /\ lastFlush.failAt = 2
    /\ lastFlush.batchAt = 4
    /\ lastFlush.input = <<1, 2, 3, 4>>
    /\ messages = <<3, 4, 5>>

\* the worker makes a final (lastChance) flush in this step
FinalFlushStep == lastFlush'.lastChance /\ (FlushStep \/ ~lastFlush.lastChance)

\* C33: the worker makes its final flush once: with the stream closed and
\* empty, so that every accepted record has been sent, logged or is in the
\* buffer the flush takes; the worker has left its loop from then on and makes
\* no other flush, and it ends.
C33_OneFinalFlushThenExit ==
    /\ [][FinalFlushStep =>
             /\ ~lastFlush.lastChance
             /\ wpc = "loop" /\ wpc' = "locking"
             /\ closedCond /\ streamClosed /\ stream = <<>>
             /\ lastFlush'.input = messages
             /\ Accepted = Delivered \cup Logged \cup SeqRange(messages)]_vars
    /\ [](lastFlush.lastChance <=> wpc \in {"locking", "done"})
    /\ [][lastFlush.lastChance =>
             /\ UNCHANGED <<lastFlush, delivered, logged>>
             /\ wpc' \in {"locking", "done"}]_vars
    /\ (lastFlush.lastChance ~> wpc = "done")

C33_Witness ==
    /\ lastFlush.trigger = "close"
    /\ lastFlush.lastChance
    /\ Len(lastFlush.input) >= 2
    /\ lastFlush.failAt # NoFail
    /\ delivered # <<>>
    /\ wpc = "done"
    /\ closed

\* C34: a Close() call that has been made returns, producers blocked on a
\* full stream or not; the worker sets closed, and signals, only while the
\* caller that closed the stream is waiting on closedCond, and the signal
\* wakes that caller; no goroutine panics.
C34_CloseReturns ==
    /\ (cpc["c1"] = "locking" ~> cpc["c1"] = "returned")
    /\ [][closed' # closed =>
             /\ closed'
             /\ initiator # "none"
             /\ cpc[initiator] = "waiting"
             /\ cpc'[initiator] = "woken"]_vars
    /\ [](~panicked)

C34_Witness ==
    /\ cpc["c1"] = "locking"
    /\ ~closedCond
    /\ ppc = [p \in Producers |-> "sending"]
    /\ readers = Producers
    /\ Len(stream) = streamChannelSize

\* C35: the stream is closed only while no producer is between its closedCond
\* test and the end of its channel send; no producer is there while the
\* stream is closed, nothing enters a closed stream and no goroutine panics.
\* A producer that was there when Close() was called has its record in the
\* stream before the stream is closed.
C35_NoSendOnClosedStream ==
    /\ [][streamClosed' # streamClosed =>
             /\ streamClosed'
             /\ readers = {}
             /\ \A p \in Producers : ppc[p] # "sending"]_vars
    /\ [](streamClosed => \A p \in Producers : ppc[p] # "sending")
    /\ [][streamClosed => (nextId' = nextId /\ Len(stream') <= Len(stream))]_vars
    /\ [][\A p \in Producers :
              (ppc[p] = "sending" /\ ppc'[p] # "sending") =>
                  /\ ~streamClosed
                  /\ ppc'[p] = "retOk"
                  /\ stream' = Append(stream, nextId)]_vars
    /\ [](~panicked)

C35_Witness ==
    /\ cpc["c1"] = "waiting"
    /\ cpc["c2"] = "locking"
    /\ streamClosed
    /\ Len(stream) = streamChannelSize
    /\ ppc["p1"] = "retOk"
    /\ ppc["p2"] = "retClosed"
    /\ nextId = 3

\* C36: every record of a successful send or of the daemon log is an accepted
\* record; no record is in two successful sends, none is both sent and
\* logged, and a record that was sent or logged is no longer in the stream or
\* in the worker's buffer.
C36_AtMostOneOutcome ==
    /\ Delivered \cup Logged \subseteq Accepted
    /\ \A r \in Accepted :
           /\ Occurrences(delivered, r) <= 1
           /\ ~(r \in Delivered /\ r \in Logged)
           /\ (r \in Delivered \cup Logged /\ wpc = "loop") =>
                  r \notin SeqRange(messages) \cup SeqRange(stream)

C36_Witness ==
    /\ closed
    /\ Len(delivered) >= 2
    /\ Len(logged) >= 2
    /\ Delivered \cup Logged = Accepted
    /\ lastFlush.input # <<>>
    /\ \E r \in Logged : \E d \in Delivered : r < d

\* n rounded up to the next multiple of b
RoundUp(n, b) == ((n + b - 1) \div b) * b

\* C37: the worker's buffer, between the worker's steps and when it is handed
\* to postMessages, never holds more records than bufferMaximum rounded up to
\* a multiple of batchSize, which is less than bufferMaximum + batchSize.
C37_BufferWithinRoundedMaximum ==
    LET limit == RoundUp(bufferMaximum, postMessagesBatchSize) IN
    /\ postMessagesBatchSize >= 1 /\ bufferMaximum >= 1
    /\ limit < bufferMaximum + postMessagesBatchSize
    /\ Len(messages) <= limit
    /\ Len(lastFlush.input) <= limit

C37_Witness ==
    /\ Len(messages) > bufferMaximum
    /\ Len(messages) = RoundUp(bufferMaximum, postMessagesBatchSize) - 1
    /\ postMessagesBatchSize >= 2
    /\ lastFlush.failAt # NoFail
    /\ wpc = "loop"

\* C38: in a pipeline built by New, whatever batch size the environment
\* gives, the worker's trigger test and the chunk bounds of its flushes are
\* defined: no goroutine panics (the batch size being >= 1).
C38_BatchSizeKeepsWorkerAlive ==
    created = "logger" => ~panicked

\* C39: once the worker has set closed it has ended: nothing is sent, nothing
\* is logged as dropped and neither the stream nor the buffer changes, whatever
\* calls of Log and Close follow.
C39_NothingAfterClosed ==
    /\ [](closed => (wpc = "done" /\ stream = <<>> /\ messages = <<>>))
    /\ [][closed => UNCHANGED <<delivered, logged, lastFlush, messages, stream,
                                nextId, closed, wpc>>]_vars
    /\ [](closed => ~panicked)

C39_Witness ==
    /\ closed
    /\ cpc["c1"] = "returned"
    /\ cpc["c2"] = "returned"
    /\ ppc["p1"] = "retClosed"
    /\ ppc["p2"] = "retClosed"
    /\ lastFlush.input # <<>>
    /\ logged # <<>>

====
